---- MODULE Spec2Model ----
(***************************************************************************)
(* A model of scrapexpathlist.py: fetch -> xpath -> do_fetch -> fetch_text *)
(* -> parse_document -> select, one action per statement group.            *)
(*                                                                         *)
(* Python values are modelled as follows.                                  *)
(*   bytes      a sequence of integers 0..255                              *)
(*   str        a sequence of Unicode code points (integers)               *)
(*   None / x   the sequences <<>> and <<x>> (see None, Some)              *)
(*   exception  a record [cls, msg]; isinstance() is decided by Mro        *)
(*   message    a TLA+ string (the text shown to the user)                 *)
(***************************************************************************)
EXTENDS Integers, Sequences, FiniteSets, TLC

\* ---------------------------------------------------------------- bounds
MaxBodyLen == 3     \* longest arbitrary response body
MaxSyms == 2        \* most symbols in a generated gzip stream
MaxN == 5           \* largest max_n_bytes a caller passes explicitly
MatchLen == 6       \* bytes produced by one run of the gzip stream
MaxItems == 2       \* most items of a node-set handed to select directly
MaxChunks == 2      \* most text chunks of an element (itertext)
MaxStrLen == 2      \* longest string among XPath results handed to select

\* ------------------------------------------------------------- utilities
None == <<>>
Some(x) == <<x>>

SeqsUpTo(S, n) == UNION {[1..k -> S] : k \in 0..n}

Min(a, b) == IF a < b THEN a ELSE b

Repeat(x, n) == [i \in 1..n |-> x]

Digit(d) ==
    CASE d = 0 -> "0" [] d = 1 -> "1" [] d = 2 -> "2" [] d = 3 -> "3"
      [] d = 4 -> "4" [] d = 5 -> "5" [] d = 6 -> "6" [] d = 7 -> "7"
      [] d = 8 -> "8" [] d = 9 -> "9"

RECURSIVE IntStr(_)
\* str(n) of a non-negative int, as an f-string formats it
IntStr(n) == IF n < 10 THEN Digit(n) ELSE IntStr(n \div 10) \o Digit(n % 10)

\* ------------------------------------------------------------ exceptions
\* The classes an `except` clause of do_fetch can meet, with their ancestors.
\* socket.timeout is what a socket read raises when the timeout expires: a
\* plain OSError subclass before Python 3.10, TimeoutError itself from 3.10 on
\* (then the environment raises "TimeoutError").
Mro(cls) ==
    CASE cls = "URLError" -> {"URLError", "OSError"}
      [] cls = "TimeoutError" -> {"TimeoutError", "OSError"}
      [] cls = "socket.timeout" -> {"socket.timeout", "OSError"}
      [] cls = "ConnectionResetError" -> {"ConnectionResetError", "OSError"}
      [] cls = "OSError" -> {"OSError"}
      [] cls = "EOFError" -> {"EOFError"}
      [] cls = "ValueError" -> {"ValueError"}
      [] cls = "UnicodeDecodeError" -> {"UnicodeDecodeError", "ValueError"}
      [] cls = "LookupError" -> {"LookupError"}
      [] cls = "XMLSyntaxError" -> {"XMLSyntaxError", "SyntaxError"}
      [] cls = "XPathSyntaxError" -> {"XPathSyntaxError", "SyntaxError"}
      [] cls = "XPathEvalError" -> {"XPathEvalError"}

Exc(cls, msg) == [cls |-> cls, msg |-> msg]

IsInstance(e, cls) == cls \in Mro(e.cls)

\* ----------------------------------------------------------------- bytes
Byte == {31, 139, 104, 195}

GZIP_MAGIC == <<31, 139>>

\* Symbols of the compressed stream that follows the magic number: a literal
\* byte, a run (139 and a byte: MatchLen copies of the byte) and the end of the
\* stream with its trailer (31).
GzipSymbol == {104, 195, 139}

GzipStreams ==
    {GZIP_MAGIC \o syms \o trailer :
        syms \in SeqsUpTo(GzipSymbol, MaxSyms), trailer \in {<<>>, <<31>>}}

Bodies == SeqsUpTo(Byte, MaxBodyLen) \cup GzipStreams

RECURSIVE Inflate(_, _)
\* The compressed stream of one gzip member: [err, out, rest]. A stream that
\* stops before its end marker is truncated.
Inflate(s, out) ==
    IF s = <<>> THEN [err |-> "EOFError", out |-> out, rest |-> <<>>]
    ELSE IF Head(s) = 31 THEN [err |-> "", out |-> out, rest |-> Tail(s)]
    ELSE IF Head(s) = 139
         THEN IF Len(s) < 2
              THEN [err |-> "EOFError", out |-> out, rest |-> <<>>]
              ELSE Inflate(SubSeq(s, 3, Len(s)), out \o Repeat(s[2], MatchLen))
    ELSE Inflate(Tail(s), Append(out, Head(s)))

RECURSIVE GzipMembers(_, _)
GzipMembers(data, acc) ==
    IF data = <<>> THEN [err |-> "", out |-> acc]
    ELSE IF Len(data) < 2 \/ SubSeq(data, 1, 2) # GZIP_MAGIC
         THEN [err |-> "OSError", out |-> <<>>]
    ELSE LET r == Inflate(SubSeq(data, 3, Len(data)), <<>>)
         IN  IF r.err # "" THEN [err |-> r.err, out |-> <<>>]
             ELSE GzipMembers(r.rest, acc \o r.out)

\* gzip.decompress(b): [err, out], err the class raised or "".
GzipDecompress(data) == GzipMembers(data, <<>>)

GzipErrorMessage(cls) ==
    CASE cls = "OSError" -> "Not a gzipped file"
      [] cls = "EOFError" ->
            "Compressed file ended before the end-of-stream marker was reached"

RECURSIVE Utf8Decode(_)
\* bytes.decode('utf-8') for one- and two-byte sequences (Byte holds no lead
\* byte of a longer one): [err, text].
Utf8Decode(bs) ==
    IF bs = <<>> THEN [err |-> FALSE, text |-> <<>>]
    ELSE IF bs[1] < 128
         THEN LET r == Utf8Decode(Tail(bs))
              IN  [err |-> r.err, text |-> <<bs[1]>> \o r.text]
    ELSE IF bs[1] >= 194 /\ bs[1] <= 223 /\ Len(bs) >= 2
            /\ bs[2] >= 128 /\ bs[2] <= 191
         THEN LET r == Utf8Decode(SubSeq(bs, 3, Len(bs)))
              IN  [err |-> r.err,
                   text |-> <<(bs[1] - 192) * 64 + (bs[2] - 128)>> \o r.text]
    ELSE [err |-> TRUE, text |-> <<>>]

\* bytes.decode('iso-8859-1'): every byte is the code point of its value.
Latin1Decode(bs) == [err |-> FALSE, text |-> [i \in 1..Len(bs) |-> bs[i]]]

Charsets == {None, Some("iso-8859-1"), Some("x-unknown")}

\* b.decode(charset or 'utf-8'): [err, text], err the class raised or "".
Decode(bs, charset) ==
    LET name == IF charset = None THEN "utf-8" ELSE charset[1]
    IN  IF name = "x-unknown" THEN [err |-> "LookupError", text |-> <<>>]
        ELSE LET r == IF name = "utf-8" THEN Utf8Decode(bs)
                      ELSE Latin1Decode(bs)
             IN  [err |-> IF r.err THEN "UnicodeDecodeError" ELSE "",
                  text |-> r.text]

\* str(err) of the exception raised by b.decode (byte and position left out).
DecodeErrorMessage(cls) ==
    IF cls = "LookupError" THEN "unknown encoding: x-unknown"
    ELSE "'utf-8' codec can't decode byte"

\* ------------------------------------------------------------- responses
Responses ==
    [body : Bodies,
     content_encoding : {None, Some("gzip")},
     charset : Charsets,
     content_type : {"text/html", "text/xml"}]

\* What the environment can do instead of answering urlopen(url, timeout):
\* a failure below HTTP, a timeout while connecting (urllib wraps both in
\* URLError), or a timeout while waiting for the status line (raised as the
\* socket raised it).
UrlopenFaults ==
    {[fault |-> "dns",
      exc |-> Exc("URLError", "<urlopen error Name or service not known>")],
     [fault |-> "timeout", exc |-> Exc("URLError", "<urlopen error timed out>")],
     [fault |-> "timeout", exc |-> Exc("TimeoutError", "timed out")],
     [fault |-> "timeout", exc |-> Exc("socket.timeout", "timed out")]}

\* What the environment can do instead of delivering the body to read().
ReadFaults ==
    {[fault |-> "timeout", exc |-> Exc("TimeoutError", "timed out")],
     [fault |-> "timeout", exc |-> Exc("socket.timeout", "timed out")],
     [fault |-> "reset",
      exc |-> Exc("ConnectionResetError", "Connection reset by peer")]}

\* ------------------------------------------------------------- selectors
Urls == {"", "http://example.org"}

SelectorStrings ==
    {"", "//p[", ".", "//text()", "count(//text())", "boolean(//text())",
     "'ab'", "//ns:a"}

\* etree.XPath(s) raises XPathSyntaxError
XPathSyntaxOk(s) == s \notin {"", "//p["}

ValidSelectors == {s \in SelectorStrings : XPathSyntaxOk(s)}

\* xpath(s): [err, selector]
xpath(s) ==
    IF XPathSyntaxOk(s) THEN [err |-> "", selector |-> [path |-> s]]
    ELSE [err |-> "Invalid expression", selector |-> [path |-> s]]

\* --------------------------------------------------------- XPath results
\* What selector(tree) returns: a list of items, or one str, float or bool.
Raw(shape, items, s, n, flag) ==
    [shape |-> shape, items |-> items, s |-> s, n |-> n, flag |-> flag]

NodeSet(items) == Raw("nodeset", items, <<>>, 0, FALSE)
XString(s) == Raw("string", <<>>, s, 0, FALSE)
XNumber(n) == Raw("number", <<>>, <<>>, n, FALSE)
XBoolean(flag) == Raw("boolean", <<>>, <<>>, 0, flag)

\* An item of a node-set: an element (its text chunks are what itertext()
\* yields) or a smart string (an attribute value or a text node).
Element(chunks) == [kind |-> "element", chunks |-> chunks, value |-> <<>>]
SmartString(s) == [kind |-> "smart", chunks |-> <<>>, value |-> s]

Chars == {97, 98}
PyStrs == SeqsUpTo(Chars, MaxStrLen)
Items ==
    {Element(c) : c \in SeqsUpTo(SeqsUpTo(Chars, 1), MaxChunks)}
        \cup {SmartString(s) : s \in PyStrs}

RawResults ==
    {NodeSet(items) : items \in SeqsUpTo(Items, MaxItems)}
        \cup {XString(s) : s \in PyStrs}
        \cup {XNumber(n) : n \in 0..2}
        \cup {XBoolean(flag) : flag \in BOOLEAN}

\* The values select returns: str, or the float left as it is.
StrVal(s) == [t |-> "str", s |-> s, n |-> 0, flag |-> FALSE]
NumVal(n) == [t |-> "float", s |-> <<>>, n |-> n, flag |-> FALSE]
BoolVal(flag) == [t |-> "bool", s |-> <<>>, n |-> 0, flag |-> flag]

RECURSIVE Join(_)
\* ''.join(chunks)
Join(chunks) == IF chunks = <<>> THEN <<>> ELSE Head(chunks) \o Join(Tail(chunks))

\* str(True), str(False)
StrOfBool(flag) ==
    IF flag THEN <<84, 114, 117, 101>> ELSE <<70, 97, 108, 115, 101>>

_item_to_string(item) ==
    IF item.kind = "element" THEN Join(item.chunks) ELSE item.value

\* hasattr(result, '__iter__'): a list and a str have it, float and bool not
HasIter(r) == r.shape \in {"nodeset", "string"}

\* what `for item in result` yields: the items of a list, the characters of
\* a str
IterItems(r) ==
    IF r.shape = "string" THEN [i \in 1..Len(r.s) |-> SmartString(<<r.s[i]>>)]
    ELSE r.items

\* IterableNotStr without the isinstance(result, str) test
IterableNoStrGuard(r) == HasIter(r)

\* hasattr(result, '__iter__') and not isinstance(result, str)
IterableNotStr(r) == HasIter(r) /\ r.shape # "string"

\* the scalar as select leaves it in `[result]`
Scalar(r) ==
    CASE r.shape = "string" -> StrVal(r.s)
      [] r.shape = "number" -> NumVal(r.n)
      [] r.shape = "boolean" -> BoolVal(r.flag)

\* select, after selector(tree) returned r
SelectValues(r) ==
    IF IterableNotStr(r)
    THEN LET it == IterItems(r)
         IN  [i \in 1..Len(it) |-> StrVal(_item_to_string(it[i]))]
    ELSE IF r.shape = "boolean" THEN <<StrVal(StrOfBool(r.flag))>>
    ELSE <<Scalar(r)>>

\* ------------------------------------------------------------- documents
\* html5parser.fromstring(text) of a text without markup (no code point of
\* Byte is '<' or '&'): one container element whose content is the text.
HtmlTree(text) == [text |-> text]

\* etree.fromstring: a document needs a root element, so a '<' (60).
XmlWellFormedPossible(text) == \E i \in 1..Len(text) : text[i] = 60

\* parse_document(text, is_html): [err, msg, tree], err the class raised or ""
parse_document(text, is_html) ==
    IF is_html THEN [err |-> "", msg |-> "", tree |-> HtmlTree(text)]
    ELSE IF XmlWellFormedPossible(text)
         THEN [err |-> "", msg |-> "", tree |-> HtmlTree(text)]
    ELSE [err |-> "XMLSyntaxError",
          msg |-> IF text = <<>> THEN "Document is empty"
                  ELSE "Start tag expected, '<' not found",
          tree |-> HtmlTree(<<>>)]

\* selector(tree) on such a tree: [err, res]
XPathOn(selector, tree) ==
    LET p == selector.path
        n == IF tree.text = <<>> THEN 0 ELSE 1
        ok(r) == [err |-> "", res |-> r]
    IN  CASE p = "." -> ok(NodeSet(<<Element(IF n = 0 THEN <<>> ELSE <<tree.text>>)>>))
          [] p = "//text()" ->
                ok(NodeSet(IF n = 0 THEN <<>> ELSE <<SmartString(tree.text)>>))
          [] p = "count(//text())" -> ok(XNumber(n))
          [] p = "boolean(//text())" -> ok(XBoolean(n = 1))
          [] p = "'ab'" -> ok(XString(<<97, 98>>))
          [] p = "//ns:a" ->
                [err |-> "Undefined namespace prefix", res |-> NodeSet(<<>>)]

\* ----------------------------------------------------------------- state
DEFAULT_MAX_N_BYTES == 5 * 1024 * 1024

VARIABLES
    pc,               \* the statement about to run
    entry,            \* the function the caller called
    url,              \* params['url'] / the url argument
    selector_string,  \* params['selector']
    selector,         \* the compiled selector, None before xpath()
    max_n_bytes,      \* do_fetch's max_n_bytes argument
    limit,            \* fetch_text's max_n_bytes argument
    response,         \* what urlopen returned, None before
    b,                \* fetch_text's b
    text,             \* fetch_text's text
    exc,              \* the exception being raised, None when there is none
    fault,            \* what the environment did to the connection
    opened,           \* urlopen returned a response
    closed,           \* the response's __exit__ has run
    urlopenCalls,     \* calls of urlopen
    compileCalls,     \* calls of xpath
    tree,             \* what parse_document returned
    xresult,          \* what selector(tree) returned
    values,           \* what select returned
    result            \* what the called function returned or raised

vars ==
    <<pc, entry, url, selector_string, selector, max_n_bytes, limit, response,
      b, text, exc, fault, opened, closed, urlopenCalls, compileCalls, tree,
      xresult, values, result>>

NoResult ==
    [kind |-> "none", table |-> None, error |-> None, value |-> None,
     exc |-> None]

\* return (table, error)
Ret(table, error) ==
    [kind |-> "return", table |-> table, error |-> error, value |-> None,
     exc |-> None]

\* return v, of fetch_text and select
RetValue(v) ==
    [kind |-> "return", table |-> None, error |-> None, value |-> Some(v),
     exc |-> None]

\* the exception leaves the called function
Raise(e) ==
    [kind |-> "raise", table |-> None, error |-> None, value |-> None,
     exc |-> Some(e)]

Init ==
    /\ pc = "idle"
    /\ entry = "none"
    /\ url = ""
    /\ selector_string = ""
    /\ selector = None
    /\ max_n_bytes = DEFAULT_MAX_N_BYTES
    /\ limit = DEFAULT_MAX_N_BYTES
    /\ response = None
    /\ b = <<>>
    /\ text = <<>>
    /\ exc = None
    /\ fault = "none"
    /\ opened = FALSE
    /\ closed = FALSE
    /\ urlopenCalls = 0
    /\ compileCalls = 0
    /\ tree = None
    /\ xresult = None
    /\ values = <<>>
    /\ result = NoResult

\* ----------------------------------------------------------------- fetch
CallFetch ==
    /\ pc = "idle"
    /\ \E u \in Urls, s \in SelectorStrings :
        /\ url' = u
        /\ selector_string' = s
    /\ entry' = "fetch"
    /\ pc' = "fetch_validate"
    /\ UNCHANGED <<selector, max_n_bytes, limit, response, b, text, exc, fault,
                   opened, closed, urlopenCalls, compileCalls, tree, xresult,
                   values, result>>

\* Validate with the two tests in the other order
ValidateSelectorFirst(u, s) ==
    IF s = "" THEN Some("Missing selector")
    ELSE IF u = "" THEN Some("Missing URL")
    ELSE None

\* the two `if not ...: return` of fetch: the message, or None to go on
Validate(u, s) ==
    IF u = "" THEN Some("Missing URL")
    ELSE IF s = "" THEN Some("Missing selector")
    ELSE None

FetchValidate ==
    /\ pc = "fetch_validate"
    /\ LET err == Validate(url, selector_string)
       IN  IF err # None
           THEN /\ result' = Ret(None, err)
                /\ pc' = "done"
           ELSE /\ pc' = "fetch_compile"
                /\ UNCHANGED result
    /\ UNCHANGED <<entry, url, selector_string, selector, max_n_bytes, limit,
                   response, b, text, exc, fault, opened, closed, urlopenCalls,
                   compileCalls, tree, xresult, values>>

FetchCompile ==
    /\ pc = "fetch_compile"
    /\ compileCalls' = compileCalls + 1
    /\ LET c == xpath(selector_string)
       IN  IF c.err # ""
           THEN /\ result' = Ret(None, Some("Bad XPath input: " \o c.err))
                /\ pc' = "done"
                /\ UNCHANGED selector
           ELSE /\ selector' = Some(c.selector)
                /\ pc' = "do_fetch"
                /\ UNCHANGED result
    /\ UNCHANGED <<entry, url, selector_string, max_n_bytes, limit, response,
                   b, text, exc, fault, opened, closed, urlopenCalls, tree,
                   xresult, values>>

\* -------------------------------------------------------------- do_fetch
CallDoFetch ==
    /\ pc = "idle"
    /\ \E s \in ValidSelectors, n \in (0..MaxN) \cup {DEFAULT_MAX_N_BYTES} :
        /\ selector' = Some(xpath(s).selector)
        /\ max_n_bytes' = n
    /\ url' = "http://example.org"
    /\ entry' = "do_fetch"
    /\ pc' = "do_fetch"
    /\ UNCHANGED <<selector_string, limit, response, b, text, exc, fault,
                   opened, closed, urlopenCalls, compileCalls, tree, xresult,
                   values, result>>

\* fetch_text(url, urlopen=urlopen, timeout=timeout): max_n_bytes is not among
\* the arguments, so fetch_text runs with its own default
DoFetchCallFetchText ==
    /\ pc = "do_fetch"
    /\ limit' = DEFAULT_MAX_N_BYTES
    /\ pc' = "urlopen"
    /\ UNCHANGED <<entry, url, selector_string, selector, max_n_bytes,
                   response, b, text, exc, fault, opened, closed, urlopenCalls,
                   compileCalls, tree, xresult, values, result>>

\* ------------------------------------------------------------ fetch_text
CallFetchText ==
    /\ pc = "idle"
    /\ \E n \in 0..MaxN : limit' = n
    /\ url' = "http://example.org"
    /\ entry' = "fetch_text"
    /\ pc' = "urlopen"
    /\ UNCHANGED <<selector_string, selector, max_n_bytes, response, b, text,
                   exc, fault, opened, closed, urlopenCalls, compileCalls,
                   tree, xresult, values, result>>

Urlopen ==
    /\ pc = "urlopen"
    /\ urlopenCalls' = urlopenCalls + 1
    /\ \/ \E r \in Responses :
            /\ response' = Some(r)
            /\ opened' = TRUE
            /\ pc' = "read"
            /\ UNCHANGED <<exc, fault>>
       \/ \E f \in UrlopenFaults :
            /\ exc' = Some(f.exc)
            /\ fault' = f.fault
            /\ pc' = "fetch_text_exit"
            /\ UNCHANGED <<response, opened>>
    /\ UNCHANGED <<entry, url, selector_string, selector, max_n_bytes, limit,
                   b, text, closed, compileCalls, tree, xresult, values,
                   result>>

\* response.read(n) of a body that arrives whole
ReadBytes(body, n) == SubSeq(body, 1, Min(Len(body), n))

Read ==
    /\ pc = "read"
    /\ \/ /\ b' = ReadBytes(response[1].body, limit + 1)
          /\ pc' = "size_check"
          /\ UNCHANGED <<exc, fault>>
       \/ \E f \in ReadFaults :
            /\ exc' = Some(f.exc)
            /\ fault' = f.fault
            /\ pc' = "with_exit"
            /\ UNCHANGED b
    /\ UNCHANGED <<entry, url, selector_string, selector, max_n_bytes, limit,
                   response, text, opened, closed, urlopenCalls, compileCalls,
                   tree, xresult, values, result>>

\* SizeExceeded with the probe one byte short
SizeExceededOffByOne(bs, n) == Len(bs) >= n

\* len(b) == max_n_bytes + 1
SizeExceeded(bs, n) == Len(bs) = n + 1

SizeMessage(n) == "HTTP response is larger than " \o IntStr(n) \o " bytes"

SizeCheck ==
    /\ pc = "size_check"
    /\ IF SizeExceeded(b, limit)
       THEN /\ exc' = Some(Exc("ValueError", SizeMessage(limit)))
            /\ pc' = "with_exit"
       ELSE /\ pc' = "gunzip"
            /\ UNCHANGED exc
    /\ UNCHANGED <<entry, url, selector_string, selector, max_n_bytes, limit,
                   response, b, text, fault, opened, closed, urlopenCalls,
                   compileCalls, tree, xresult, values, result>>

\* Gunzip with the ceiling applied to the decompressed bytes as well
GunzipBounded ==
    /\ pc = "gunzip"
    /\ IF response[1].content_encoding = Some("gzip")
       THEN LET d == GzipDecompress(b)
            IN  IF d.err # ""
                THEN /\ exc' = Some(Exc(d.err, GzipErrorMessage(d.err)))
                     /\ pc' = "with_exit"
                     /\ UNCHANGED b
                ELSE IF Len(d.out) > limit
                THEN /\ exc' = Some(Exc("ValueError", SizeMessage(limit)))
                     /\ pc' = "with_exit"
                     /\ UNCHANGED b
                ELSE /\ b' = d.out
                     /\ pc' = "decode"
                     /\ UNCHANGED exc
       ELSE /\ pc' = "decode"
            /\ UNCHANGED <<b, exc>>
    /\ UNCHANGED <<entry, url, selector_string, selector, max_n_bytes, limit,
                   response, text, fault, opened, closed, urlopenCalls,
                   compileCalls, tree, xresult, values, result>>

Gunzip ==
    /\ pc = "gunzip"
    /\ IF response[1].content_encoding = Some("gzip")
       THEN LET d == GzipDecompress(b)
            IN  IF d.err # ""
                THEN /\ exc' = Some(Exc(d.err, GzipErrorMessage(d.err)))
                     /\ pc' = "with_exit"
                     /\ UNCHANGED b
                ELSE /\ b' = d.out
                     /\ pc' = "decode"
                     /\ UNCHANGED exc
       ELSE /\ pc' = "decode"
            /\ UNCHANGED <<b, exc>>
    /\ UNCHANGED <<entry, url, selector_string, selector, max_n_bytes, limit,
                   response, text, fault, opened, closed, urlopenCalls,
                   compileCalls, tree, xresult, values, result>>

DecodeText ==
    /\ pc = "decode"
    /\ LET d == Decode(b, response[1].charset)
       IN  IF d.err # ""
           THEN /\ exc' = Some(Exc(d.err, DecodeErrorMessage(d.err)))
                /\ UNCHANGED text
           ELSE /\ text' = d.text
                /\ UNCHANGED exc
    /\ pc' = "with_exit"
    /\ UNCHANGED <<entry, url, selector_string, selector, max_n_bytes, limit,
                   response, b, fault, opened, closed, urlopenCalls,
                   compileCalls, tree, xresult, values, result>>

\* WithExit closing the response on a normal return only
WithExitOnReturnOnly ==
    /\ pc = "with_exit"
    /\ closed' = (exc = None)
    /\ pc' = "fetch_text_exit"
    /\ UNCHANGED <<entry, url, selector_string, selector, max_n_bytes, limit,
                   response, b, text, exc, fault, opened, urlopenCalls,
                   compileCalls, tree, xresult, values, result>>

\* leaving the `with` block, by return or by exception: response.__exit__
WithExit ==
    /\ pc = "with_exit"
    /\ closed' = TRUE
    /\ pc' = "fetch_text_exit"
    /\ UNCHANGED <<entry, url, selector_string, selector, max_n_bytes, limit,
                   response, b, text, exc, fault, opened, urlopenCalls,
                   compileCalls, tree, xresult, values, result>>

\* fetch_text is left: to its caller when it was called directly, into
\* do_fetch's handlers or on to parse_document otherwise
FetchTextExit ==
    /\ pc = "fetch_text_exit"
    /\ IF entry = "fetch_text"
       THEN /\ result' = IF exc # None THEN Raise(exc[1])
                         ELSE RetValue([info |-> response[1], text |-> text])
            /\ pc' = "done"
       ELSE /\ pc' = IF exc # None THEN "do_fetch_except" ELSE "parse"
            /\ UNCHANGED result
    /\ UNCHANGED <<entry, url, selector_string, selector, max_n_bytes, limit,
                   response, b, text, exc, fault, opened, closed, urlopenCalls,
                   compileCalls, tree, xresult, values>>

\* ---------------------------------------------------- do_fetch, continued
\* the except clauses in the order written
ExceptChain(e) ==
    IF IsInstance(e, "URLError") THEN Ret(None, Some("Fetch error: " \o e.msg))
    ELSE IF IsInstance(e, "TimeoutError")
         THEN Ret(None, Some("HTTP request timed out"))
    ELSE IF IsInstance(e, "EOFError")
         THEN Ret(None, Some("Compressed data was truncated"))
    ELSE IF IsInstance(e, "OSError")
         THEN Ret(None, Some("Compressed data was not valid gzip"))
    ELSE IF IsInstance(e, "ValueError") THEN Ret(None, Some(e.msg))
    ELSE IF IsInstance(e, "UnicodeDecodeError")
         THEN Ret(None, Some("HTML or XML has invalid charset"))
    ELSE Raise(e)

DoFetchExcept ==
    /\ pc = "do_fetch_except"
    /\ result' = ExceptChain(exc[1])
    /\ pc' = "done"
    /\ UNCHANGED <<entry, url, selector_string, selector, max_n_bytes, limit,
                   response, b, text, exc, fault, opened, closed, urlopenCalls,
                   compileCalls, tree, xresult, values>>

ParseDocument ==
    /\ pc = "parse"
    /\ LET is_html == response[1].content_type = "text/html"
           d == parse_document(text, is_html)
       IN  IF d.err # ""
           THEN /\ exc' = Some(Exc(d.err, d.msg))
                /\ result' = Raise(Exc(d.err, d.msg))
                /\ pc' = "done"
                /\ UNCHANGED tree
           ELSE /\ tree' = Some(d.tree)
                /\ pc' = "select"
                /\ UNCHANGED <<exc, result>>
    /\ UNCHANGED <<entry, url, selector_string, selector, max_n_bytes, limit,
                   response, b, text, fault, opened, closed, urlopenCalls,
                   compileCalls, xresult, values>>

\* ---------------------------------------------------------------- select
CallSelect ==
    /\ pc = "idle"
    /\ entry' = "select"
    /\ pc' = "select"
    /\ UNCHANGED <<url, selector_string, selector, max_n_bytes, limit,
                   response, b, text, exc, fault, opened, closed, urlopenCalls,
                   compileCalls, tree, xresult, values, result>>

\* result = selector(tree), select called on a tree of the caller's: any
\* result of the bounded shapes, or an evaluation error
SelectEvalCaller ==
    /\ pc = "select"
    /\ entry = "select"
    /\ \/ \E r \in RawResults :
            /\ xresult' = Some(r)
            /\ pc' = "select_coerce"
            /\ UNCHANGED exc
       \/ /\ exc' = Some(Exc("XPathEvalError", "Undefined namespace prefix"))
          /\ pc' = "select_exit"
          /\ UNCHANGED xresult
    /\ UNCHANGED <<entry, url, selector_string, selector, max_n_bytes, limit,
                   response, b, text, fault, opened, closed, urlopenCalls,
                   compileCalls, tree, values, result>>

\* result = selector(tree), inside do_fetch: computed on the parsed document
SelectEvalDocument ==
    /\ pc = "select"
    /\ entry # "select"
    /\ LET e == XPathOn(selector[1], tree[1])
       IN  IF e.err # ""
           THEN /\ exc' = Some(Exc("XPathEvalError", e.err))
                /\ pc' = "select_exit"
                /\ UNCHANGED xresult
           ELSE /\ xresult' = Some(e.res)
                /\ pc' = "select_coerce"
                /\ UNCHANGED exc
    /\ UNCHANGED <<entry, url, selector_string, selector, max_n_bytes, limit,
                   response, b, text, fault, opened, closed, urlopenCalls,
                   compileCalls, tree, values, result>>

SelectCoerce ==
    /\ pc = "select_coerce"
    /\ values' = SelectValues(xresult[1])
    /\ pc' = "select_exit"
    /\ UNCHANGED <<entry, url, selector_string, selector, max_n_bytes, limit,
                   response, b, text, exc, fault, opened, closed, urlopenCalls,
                   compileCalls, tree, xresult, result>>

\* select is left, called directly
SelectReturn ==
    /\ pc = "select_exit"
    /\ entry = "select"
    /\ result' = IF exc # None THEN Raise(exc[1]) ELSE RetValue(values)
    /\ pc' = "done"
    /\ UNCHANGED <<entry, url, selector_string, selector, max_n_bytes, limit,
                   response, b, text, exc, fault, opened, closed, urlopenCalls,
                   compileCalls, tree, xresult, values>>

\* except etree.XPathEvalError
DoFetchXPathError ==
    /\ pc = "select_exit"
    /\ entry # "select"
    /\ exc # None
    /\ result' = Ret(None, Some("XPath error: " \o exc[1].msg))
    /\ pc' = "done"
    /\ UNCHANGED <<entry, url, selector_string, selector, max_n_bytes, limit,
                   response, b, text, exc, fault, opened, closed, urlopenCalls,
                   compileCalls, tree, xresult, values>>

\* DataFrame({'XPath result': values}); return (table, None)
BuildTable ==
    /\ pc = "select_exit"
    /\ entry # "select"
    /\ exc = None
    /\ result' = Ret(Some([column |-> "XPath result", values |-> values]), None)
    /\ pc' = "done"
    /\ UNCHANGED <<entry, url, selector_string, selector, max_n_bytes, limit,
                   response, b, text, exc, fault, opened, closed, urlopenCalls,
                   compileCalls, tree, xresult, values>>

\* every entry point
Next ==
    \/ CallFetch
    \/ FetchValidate
    \/ FetchCompile
    \/ CallDoFetch
    \/ DoFetchCallFetchText
    \/ CallFetchText
    \/ Urlopen
    \/ Read
    \/ SizeCheck
    \/ Gunzip
    \/ DecodeText
    \/ WithExit
    \/ FetchTextExit
    \/ DoFetchExcept
    \/ ParseDocument
    \/ CallSelect
    \/ SelectEvalCaller
    \/ SelectEvalDocument
    \/ SelectCoerce
    \/ SelectReturn
    \/ DoFetchXPathError
    \/ BuildTable

Spec == Init /\ [][Next]_vars

\* calls of fetch(params)
NextFetch ==
    \/ CallFetch
    \/ FetchValidate
    \/ FetchCompile
    \/ DoFetchCallFetchText
    \/ Urlopen
    \/ Read
    \/ SizeCheck
    \/ Gunzip
    \/ DecodeText
    \/ WithExit
    \/ FetchTextExit
    \/ DoFetchExcept
    \/ ParseDocument
    \/ SelectEvalDocument
    \/ SelectCoerce
    \/ DoFetchXPathError
    \/ BuildTable

SpecFetch == Init /\ [][NextFetch]_vars

\* calls of fetch_text(url, max_n_bytes, urlopen=...)
NextFetchText ==
    \/ CallFetchText
    \/ Urlopen
    \/ Read
    \/ SizeCheck
    \/ Gunzip
    \/ DecodeText
    \/ WithExit
    \/ FetchTextExit

SpecFetchText == Init /\ [][NextFetchText]_vars

\* calls of select(tree, selector)
NextSelect ==
    \/ CallSelect
    \/ SelectEvalCaller
    \/ SelectCoerce
    \/ SelectReturn

SpecSelect == Init /\ [][NextSelect]_vars

\* ---------------------------------------------------------------- claims
Done == pc = "done"

\* the called function is do_fetch, directly or through fetch
InDoFetch == entry \in {"do_fetch", "fetch"}

\* urlopen answered and the body arrived without a fault of the connection
Delivered == response # None /\ fault = "none"

Body == response[1].body

\* C1: every call of do_fetch (directly or through fetch) ends by returning
\* (table, error) with exactly one of the two present; no exception of any
\* stage leaves do_fetch.
C1_ReturnsExactlyOne ==
    (Done /\ InDoFetch) =>
        /\ result.kind = "return"
        /\ (result.table = None) # (result.error = None)

\* C2: for a response that is not gzip-encoded, fetch_text raises the
\* ValueError 'HTTP response is larger than <max_n_bytes> bytes' when the body
\* is longer than max_n_bytes, and never when it is at most max_n_bytes long
\* (exactly max_n_bytes included): then it returns the decoded text whenever
\* the bytes decode under the charset.
C2_SizeBoundary ==
    (Done /\ entry = "fetch_text" /\ Delivered
          /\ response[1].content_encoding = None) =>
        LET sizeError == Raise(Exc("ValueError", SizeMessage(limit)))
            d == Decode(Body, response[1].charset)
        IN  /\ Len(Body) >= limit + 1 => result = sizeError
            /\ Len(Body) <= limit =>
                /\ result # sizeError
                /\ d.err = "" =>
                     result = RetValue([info |-> response[1], text |-> d.text])

\* C2 witness: a body of exactly max_n_bytes (at least one) bytes was fetched
\* and returned.
C2_Witness ==
    /\ Done /\ entry = "fetch_text" /\ Delivered
    /\ response[1].content_encoding = None
    /\ limit >= 1
    /\ Len(Body) = limit
    /\ result.kind = "return"

\* C3: do_fetch called with max_n_bytes = N rejects a body longer than N bytes
\* with 'HTTP response is larger than N bytes' and never rejects a body of at
\* most N bytes for its size.
C3_CallerCeilingEnforced ==
    (Done /\ entry = "do_fetch" /\ Delivered) =>
        LET sizeError == Ret(None, Some(SizeMessage(max_n_bytes)))
        IN  /\ Len(Body) > max_n_bytes => result = sizeError
            /\ Len(Body) <= max_n_bytes => result # sizeError

\* C4: whenever fetch_text raises UnicodeDecodeError, do_fetch returns
\* (None, 'HTML or XML has invalid charset').
C4_InvalidCharsetMessage ==
    (Done /\ InDoFetch /\ exc # None /\ exc[1].cls = "UnicodeDecodeError") =>
        result = Ret(None, Some("HTML or XML has invalid charset"))

\* C5: do_fetch returns (None, 'Compressed data was not valid gzip') exactly
\* when the response is labelled Content-Encoding: gzip and the bytes received
\* are not gzip data; no other failure produces the message.
C5_InvalidGzipMessageOnlyForGzip ==
    (Done /\ InDoFetch) =>
        (result = Ret(None, Some("Compressed data was not valid gzip"))
            <=> /\ Delivered
                /\ response[1].content_encoding = Some("gzip")
                /\ GzipDecompress(ReadBytes(Body, limit + 1)).err = "OSError")

\* C6: whenever the timeout expires, while connecting or while reading,
\* do_fetch returns (None, 'HTTP request timed out').
C6_TimeoutMessage ==
    (Done /\ InDoFetch /\ fault = "timeout") =>
        result = Ret(None, Some("HTTP request timed out"))

\* C7: in fetch, an empty url gives 'Missing URL' (also with an empty
\* selector), else an empty selector gives 'Missing selector', else a selector
\* that does not compile gives 'Bad XPath input: <diagnostic>'; in these cases
\* urlopen is never called, and urlopen is called at most once, after the one
\* compilation of the selector.
C7_ValidationBeforeNetwork ==
    entry = "fetch" =>
        /\ compileCalls <= 1
        /\ urlopenCalls <= 1
        /\ urlopenCalls = 1 =>
            /\ compileCalls = 1
            /\ url # ""
            /\ selector_string # ""
            /\ XPathSyntaxOk(selector_string)
            /\ selector = Some([path |-> selector_string])
        /\ Done =>
            /\ url = "" => result = Ret(None, Some("Missing URL"))
            /\ (url # "" /\ selector_string = "") =>
                    result = Ret(None, Some("Missing selector"))
            /\ (url # "" /\ selector_string # ""
                    /\ ~XPathSyntaxOk(selector_string)) =>
                    result = Ret(None, Some("Bad XPath input: Invalid expression"))

\* C7 witness: fetch ended on a selector that does not compile, after one
\* compilation and without a call of urlopen.
C7_Witness ==
    /\ Done /\ entry = "fetch"
    /\ result = Ret(None, Some("Bad XPath input: Invalid expression"))
    /\ compileCalls = 1
    /\ urlopenCalls = 0

\* C8: once fetch_text has returned or raised, a response that urlopen
\* returned has been closed.
C8_ResponseClosed ==
    (pc \in {"fetch_text_exit", "done"} /\ opened) => closed

\* C8 witness: fetch_text raised UnicodeDecodeError with the response closed.
C8_Witness ==
    /\ Done /\ entry = "fetch_text"
    /\ opened /\ closed
    /\ result.kind = "raise"
    /\ result.exc[1].cls = "UnicodeDecodeError"

C10_CeilingOnReceivedBytes ==
    (Done /\ entry = "fetch_text" /\ Delivered
          /\ response[1].content_encoding = Some("gzip")) =>
        LET sizeError == Raise(Exc("ValueError", SizeMessage(limit)))
            z == GzipDecompress(Body)
            d == Decode(z.out, response[1].charset)
        IN  /\ result = sizeError <=> Len(Body) > limit
            /\ (Len(Body) <= limit /\ z.err = "" /\ d.err = "") =>
                    result = RetValue([info |-> response[1], text |-> d.text])

\* C10 witness: a compressed body of at most max_n_bytes bytes was returned
\* as a text longer than max_n_bytes.
C10_Witness ==
    /\ Done /\ entry = "fetch_text" /\ Delivered
    /\ response[1].content_encoding = Some("gzip")
    /\ Len(Body) <= limit
    /\ result.kind = "return"
    /\ Len(result.value[1].text) > limit

====
